---- MODULE Spec2Model ----
(***************************************************************************)
(* A model of the ActivePython installer script src/_install.py: the       *)
(* OpenSSL directory ranker (_get_default_openssldir, _rank_openssl_dir,   *)
(* _analyze_ranks, _get_openssl_text), the install pipeline run by main    *)
(* (interactiveInstall, install), and main's option parsing and _askYesNo  *)
(* each on its own.                                                        *)
(*                                                                         *)
(* Python strings are TLA+ strings; None is the value None below.  A dict  *)
(* is a record [keys, val]: keys is the sequence of its keys in insertion  *)
(* order (the order Python 3.7+ iterates a dict in), val maps each key to  *)
(* its value.                                                              *)
(***************************************************************************)
EXTENDS Naturals, Integers, Sequences, FiniteSets, TLC

\* ------------------------------------------------------------------ bounds

\* At most this many of the candidate OpenSSL directories exist on disk.
MaxDirs == 2

\* The longest output of the openssl tool, in chunks of text.
MaxOut == 4

\* The most options on the command line.
MaxArgs == 2

\* The most lines in the relocation manifest.
MaxManifest == 2

\* The most lines a user types at one question of _askYesNo.
MaxReads == 3

\* ------------------------------------------------------ Python primitives

None == "<None>"

\* Python truthiness of an optional string: None and "" are false.
Truthy(s) == s # None /\ s # ""

\* os.path.join(a, b) for a relative b and a POSIX a without trailing slash.
os_path_join(a, b) == IF a = "" THEN b ELSE a \o "/" \o b

SeqToSet(s) == {s[i] : i \in DOMAIN s}

\* ------------------------------------------------- OpenSSL directory ranker

_DEFAULT_OPENSSLDIRS ==
    << "/usr/share/ssl", "/etc/pki/tls", "/usr/lib/ssl", "/etc/ssl",
       "/usr/local/ssl", "/System/Library/OpenSSL" >>

\* A directory outside the fixed list, for a system default that is not in it.
OtherDir == "/fakessl"

CandidateDirs == SeqToSet(_DEFAULT_OPENSSLDIRS) \cup {OtherDir}

\* What a name inside a candidate directory can be on disk.
EntryKinds == {"absent", "file", "dir"}

\* The filesystem as the ranker sees it, built from the set S of candidate
\* directories that exist and, for each, what cert.pem and certs are.
MkFs(S, pem, certs) ==
    [ dirs  |-> S \cup {os_path_join(d, "cert.pem") : d \in {e \in S : pem[e] = "dir"}}
                  \cup {os_path_join(d, "certs") : d \in {e \in S : certs[e] = "dir"}},
      files |-> {os_path_join(d, "cert.pem") : d \in {e \in S : pem[e] = "file"}}
                  \cup {os_path_join(d, "certs") : d \in {e \in S : certs[e] = "file"}} ]

FilesystemsOver(U, n) ==
    UNION { { MkFs(S, pem, certs) : pem \in [S -> EntryKinds], certs \in [S -> EntryKinds] }
            : S \in {T \in SUBSET U : Cardinality(T) <= n} }

SslFilesystems == FilesystemsOver(CandidateDirs, MaxDirs)

os_path_isdir(fs, p)  == p \in fs.dirs
os_path_isfile(fs, p) == p \in fs.files

EmptyDict == [keys |-> << >>, val |-> << >>]

\* d[k] = v on a dict: a new key is appended, an old key keeps its place.
DictSet(d, k, v) ==
    IF k \in SeqToSet(d.keys)
    THEN [keys |-> d.keys, val |-> [d.val EXCEPT ![k] = v]]
    ELSE [keys |-> Append(d.keys, k),
          val  |-> [x \in SeqToSet(d.keys) \cup {k} |-> IF x = k THEN v ELSE d.val[x]]]

\* ScoreOf with os.path.exists in the place of os.path.isfile and
\* os.path.isdir.
ScoreOf_exists(fs, openssl_dir, default_openssl) ==
    (IF openssl_dir = default_openssl THEN 1 ELSE 0)
    + (IF os_path_join(openssl_dir, "cert.pem") \in fs.files \cup fs.dirs THEN 4 ELSE 0)
    + (IF os_path_join(openssl_dir, "certs") \in fs.files \cup fs.dirs THEN 2 ELSE 0)

\* The score _rank_openssl_dir gives one existing directory.
ScoreOf(fs, openssl_dir, default_openssl) ==
    (IF openssl_dir = default_openssl THEN 1 ELSE 0)
    + (IF os_path_isfile(fs, os_path_join(openssl_dir, "cert.pem")) THEN 4 ELSE 0)
    + (IF os_path_isdir(fs, os_path_join(openssl_dir, "certs")) THEN 2 ELSE 0)

\* The list _rank_openssl_dir walks.
OpensslList(default_openssl) ==
    IF Truthy(default_openssl)
    THEN << default_openssl >> \o _DEFAULT_OPENSSLDIRS
    ELSE _DEFAULT_OPENSSLDIRS

RECURSIVE RankLoop(_, _, _, _, _)
RankLoop(fs, list, i, default_openssl, rank) ==
    IF i > Len(list) THEN rank
    ELSE RankLoop(fs, list, i + 1, default_openssl,
                  IF os_path_isdir(fs, list[i])
                  THEN DictSet(rank, list[i], ScoreOf(fs, list[i], default_openssl))
                  ELSE rank)

_rank_openssl_dir(fs, default_openssl) ==
    RankLoop(fs, OpensslList(default_openssl), 1, default_openssl, EmptyDict)

\* max(openssl_rank.values()) of a non-empty dict.
MaxValue(rank) ==
    CHOOSE m \in {rank.val[k] : k \in SeqToSet(rank.keys)} :
        \A k \in SeqToSet(rank.keys) : rank.val[k] <= m

\* [k for k, v in openssl_rank.items() if v == max_value], in dict order.
MaxKeys(rank) == SelectSeq(rank.keys, LAMBDA k : rank.val[k] = MaxValue(rank))

\* Thresholds with > in the place of >=.
Thresholds_strict(max_value) ==
    IF max_value > 6 THEN << 1, 1 >>
    ELSE IF max_value > 4 THEN << 1, 0 >>
    ELSE IF max_value > 2 THEN << 0, 1 >>
    ELSE << 0, 0 >>

\* The thresholds of _analyze_ranks: the pair (cert_pem, cert_dir).
Thresholds(max_value) ==
    IF max_value >= 6 THEN << 1, 1 >>
    ELSE IF max_value >= 4 THEN << 1, 0 >>
    ELSE IF max_value >= 2 THEN << 0, 1 >>
    ELSE << 0, 0 >>

\* PickKey taking the last of the tied keys.
PickKey_last(max_keys) == max_keys[Len(max_keys)]

\* The key _analyze_ranks returns among the tied ones.
PickKey(max_keys) == max_keys[1]

\* _analyze_ranks: ret is the returned triple, printed the list of tied
\* directories it prints (empty when it prints nothing).
_analyze_ranks(rank) ==
    IF rank.keys # << >>
    THEN [ ret     |-> << PickKey(MaxKeys(rank)) >> \o Thresholds(MaxValue(rank)),
           printed |-> IF Len(MaxKeys(rank)) > 1 THEN MaxKeys(rank) ELSE << >> ]
    ELSE [ ret |-> << None, 0, 0 >>, printed |-> << >> ]

NotFoundText == "Openssl directory not found in an expected location."

\* OpensslText without the test "if openssl_dir".
OpensslText_unguarded(ret) ==
    << "export OPENSSLDIR=" \o ret[1],
       IF ret[2] # 0 THEN "export SSL_CERT_FILE=" \o os_path_join(ret[1], "cert.pem") ELSE "",
       IF ret[3] # 0 THEN "export SSL_CERT_DIR=" \o os_path_join(ret[1], "certs") ELSE "" >>

\* The body of _get_openssl_text after its call of _analyze_ranks.
OpensslText(ret) ==
    IF Truthy(ret[1])
    THEN << "export OPENSSLDIR=" \o ret[1],
            IF ret[2] # 0 THEN "export SSL_CERT_FILE=" \o os_path_join(ret[1], "cert.pem") ELSE "",
            IF ret[3] # 0 THEN "export SSL_CERT_DIR=" \o os_path_join(ret[1], "certs") ELSE "" >>
    ELSE << NotFoundText, "", "" >>

\* ----------------------------------------------- the system OpenSSL tool

\* The text the tool can print is a sequence of chunks; DQ and SQ are the
\* double and the single quote character.
DQ == "\""
SQ == "'"
Chunks == {"OPENSSLDIR: ", DQ, SQ, "/etc/ssl"}

RECURSIVE SeqsUpTo(_, _)
SeqsUpTo(S, n) ==
    IF n = 0 THEN {<< >>}
    ELSE SeqsUpTo(S, n - 1) \cup
         {Append(q, c) : q \in {r \in SeqsUpTo(S, n - 1) : Len(r) = n - 1}, c \in S}

\* The outcomes of subprocess.check_output(["openssl", "version", "-d"]).
CheckOutputOutcomes ==
    {[kind |-> "OSError", out |-> << >>], [kind |-> "CalledProcessError", out |-> << >>]}
    \cup {[kind |-> "output", out |-> o] : o \in SeqsUpTo(Chunks, MaxOut)}

NoCall == [kind |-> "none", out |-> << >>]

\* str(output) of a bytes object: b'...' with each single quote escaped, or
\* b"..." when the bytes hold a single quote and no double quote.
BytesStr(out) ==
    IF SQ \in SeqToSet(out) /\ DQ \notin SeqToSet(out)
    THEN << "b", DQ >> \o out \o << DQ >>
    ELSE << "b", SQ >> \o [i \in DOMAIN out |-> IF out[i] = SQ THEN "\\'" ELSE out[i]] \o << SQ >>

\* text.split('"'): the pieces between the double quotes.
RECURSIVE SplitDQ(_, _, _)
SplitDQ(text, i, pieces) ==
    IF i > Len(text) THEN pieces
    ELSE IF text[i] = DQ
         THEN SplitDQ(text, i + 1, Append(pieces, << >>))
         ELSE SplitDQ(text, i + 1,
                      [pieces EXCEPT ![Len(pieces)] = Append(pieces[Len(pieces)], text[i])])

Split(text) == SplitDQ(text, 1, << << >> >>)

RECURSIVE Concat(_)
Concat(chunks) == IF chunks = << >> THEN "" ELSE Head(chunks) \o Concat(Tail(chunks))

\* What the except clause of _get_default_openssldir catches.
Caught(kind) == kind \in {"OSError", "CalledProcessError"}

\* _get_default_openssldir on one outcome of the subprocess call:
\* exc is the exception that leaves the function ("" for none).
_get_default_openssldir(outcome) ==
    IF outcome.kind # "output"
    THEN IF Caught(outcome.kind)
         THEN [exc |-> "", ret |-> None]
         ELSE [exc |-> outcome.kind, ret |-> None]
    ELSE IF Len(Split(BytesStr(outcome.out))) >= 2
         THEN [exc |-> "", ret |-> Concat(Split(BytesStr(outcome.out))[2])]
         ELSE [exc |-> "IndexError", ret |-> None]

\* ------------------------------------------------------------ main: options

gDefaultInstallDir == "/opt/ActivePython-3.8"

\* A directory a user names, on the command line or at the prompt.
UserDir == "/opt/py"

\* One command-line option with its argument (None when it takes none).
Opt(o, a) == [opt |-> o, arg |-> a]

ShortOpts == {"-V", "-v", "-h", "-e", "-I", "-n"}
LongOpts  == {"--version", "--verbose", "--help", "--use-env-shebang",
              "--install-dir", "--no-com-registration", "--no-path-additions"}

\* The option forms the usage text lists, and -V, --version and -n.
OptionForms ==
    {Opt(o, None) : o \in {"-h", "--help", "-v", "--verbose", "-e", "--use-env-shebang",
                           "-c", "--no-com-registration", "-p", "--no-path-additions",
                           "-V", "--version", "-n"}}
    \cup {Opt("-I", UserDir), Opt("--install-dir", UserDir)}

Argvs == SeqsUpTo(OptionForms, MaxArgs)

\* The options the usage text lists.
UsageOptions ==
    {"-h", "--help", "-v", "--verbose", "-e", "--use-env-shebang", "-I", "--install-dir",
     "-c", "--no-com-registration", "-p", "--no-path-additions"}

\* getopt.getopt(argv[1:], "VvheI:n", [...]) accepts the command line.
GetoptAccepts(argv) == \A i \in DOMAIN argv : argv[i].opt \in ShortOpts \cup LongOpts

\* The values main's option loop sets; ret is "" while the loop goes on.
InitialOptions ==
    [ ret |-> "", out |-> << >>, installDir |-> None, registerCOM |-> TRUE,
      pathAdditions |-> TRUE, useEnv |-> FALSE, verbose |-> FALSE ]

\* One turn of main's loop "for opt, optarg in opts".
OptionStep(st, o) ==
    IF o.opt \in {"-h", "--help"} THEN [st EXCEPT !.ret = "None", !.out = << "usage" >>]
    ELSE IF o.opt \in {"-V", "--version"} THEN [st EXCEPT !.ret = "None", !.out = << "version" >>]
    ELSE IF o.opt \in {"-e", "--use-env-shebang"} THEN [st EXCEPT !.useEnv = TRUE]
    ELSE IF o.opt \in {"-v", "--verbose"} THEN [st EXCEPT !.verbose = TRUE]
    ELSE IF o.opt \in {"-I", "--install-dir"} THEN [st EXCEPT !.installDir = o.arg]
    ELSE IF o.opt \in {"-c", "--no-com-registration"} THEN [st EXCEPT !.registerCOM = FALSE]
    ELSE IF o.opt \in {"-p", "--no-path-additions"} THEN [st EXCEPT !.pathAdditions = FALSE]
    ELSE st

RECURSIVE OptionLoop(_, _, _)
OptionLoop(argv, i, st) ==
    IF i > Len(argv) \/ st.ret # "" THEN st
    ELSE OptionLoop(argv, i + 1, OptionStep(st, argv[i]))

\* main up to its try statement: the options parsed, or main's return.
ParseOptions(argv) ==
    IF ~GetoptAccepts(argv)
    THEN [InitialOptions EXCEPT !.ret = "1", !.out = << "log.error", "log.error" >>]
    ELSE OptionLoop(argv, 1, InitialOptions)

\* ----------------------------------------------------------------- _askYesNo

\* The lines a user types at a prompt.
Answers == {"", "y", "YES", "n", "No", "maybe"}

\* str.lower() on the lines a user types.
Lower(s) == CASE s = "YES" -> "yes" [] s = "No" -> "no" [] s = "Ye" -> "ye" [] OTHER -> s

\* The dict "valid" of _askYesNo.
Valid == [yes |-> "yes", y |-> "yes", ye |-> "yes", no |-> "no", n |-> "no"]

\* One turn of the loop of _askYesNo that returns what "default" holds for
\* every empty line.
AskTurn_anydefault(default, line) ==
    IF Lower(line) = "" THEN default
    ELSE IF Lower(line) \in DOMAIN Valid THEN Valid[Lower(line)]
    ELSE "again"

\* One turn of the loop of _askYesNo on one line read: the answer returned,
\* or "again" when the line is rejected and the question asked again.
AskTurn(default, line) ==
    IF default # None /\ Lower(line) = "" THEN default
    ELSE IF Lower(line) \in DOMAIN Valid THEN Valid[Lower(line)]
    ELSE "again"

\* The values _askYesNo is given as "default": the three it accepts and one
\* it does not.
AskDefaults == {None, "yes", "no", "maybe"}

\* The lines a user types at _askYesNo when it is checked on its own: those
\* above, and "ye" in two cases and a "y" after a blank.
AskInputs == Answers \cup {"ye", "Ye", " y"}

\* Lines 107-114: the prompt for a default, "" when Error is raised.
PromptOf(default) ==
    CASE default = None -> " [y/n] "
      [] default = "yes" -> " [Y/n] "
      [] default = "no" -> " [y/N] "
      [] OTHER -> ""

\* ------------------------------------------------------- install: helpers

\* The files the relocation manifest can name, and those of them that are
\* in the template tree INSTALLDIR (a manifest may name a file that is not).
Files == {"bin/python3", "bin/pip3"}
TemplateFiles == {"bin/python3"}

\* The lines of the relocation manifest, as the chunks of text of each line.
ManifestLines == {<< f, "\n" >> : f \in Files}

Whitespace == {" ", "\n"}

\* str.strip() on a line given as chunks.
RECURSIVE LStrip(_)
LStrip(line) ==
    IF line # << >> /\ Head(line) \in Whitespace THEN LStrip(Tail(line)) ELSE line

RECURSIVE RStrip(_)
RStrip(line) ==
    IF line # << >> /\ line[Len(line)] \in Whitespace
    THEN RStrip(SubSeq(line, 1, Len(line) - 1)) ELSE line

Strip(line) == Concat(RStrip(LStrip(line)))

\* _validateInstallDir without its test.
_validateInstallDir_never(kind) == ""

\* _validateInstallDir: the exception it raises ("" for none), given what
\* the install directory is on disk.
_validateInstallDir(kind) ==
    IF kind # "absent" /\ kind # "dir" THEN "Error" ELSE ""

\* RelocateLoop missing the last line of the manifest.
RelocateLoop_short(lines) == [i \in 1..(Len(lines) - 1) |-> Strip(lines[i])]

\* The files the loop over the manifest hands to activestate.relocate_path,
\* in order (the Windows branch of install).
RelocateLoop(lines) == [i \in DOMAIN lines |-> Strip(lines[i])]

\* How often each file is in a sequence of files.
Count(seq, f) == Cardinality({i \in DOMAIN seq : seq[i] = f})

\* activestate.relocate_path on one file: a file that exists is rewritten,
\* a file that does not is skipped.
relocate_path(onDisk, f) == IF f \in onDisk THEN << f >> ELSE << >>

\* The rewriter on the files handed to it, in order.
RECURSIVE RelocateAll(_, _)
RelocateAll(onDisk, list) ==
    IF list = << >> THEN << >>
    ELSE relocate_path(onDisk, Head(list)) \o RelocateAll(onDisk, Tail(list))

\* activestate.relocate_python: the files it hands to the rewriter, each
\* file the manifest lists once, in the order of the manifest.
relocate_python(lines) ==
    LET all == [i \in DOMAIN lines |-> Strip(lines[i])]
        first(i) == \A j \in 1..(i - 1) : all[j] # all[i]
        idx == {i \in DOMAIN all : first(i)}
        RECURSIVE Pick(_)
        Pick(i) == IF i > Len(all) THEN << >>
                   ELSE (IF i \in idx THEN << all[i] >> ELSE << >>) \o Pick(i + 1)
    IN  Pick(1)

\* PosixSteps with the OpenSSL guidance computed before the relocation.
PosixSteps_reordered == << "copytree", "openssl", "relocate", "rpath", "qt_config", "report" >>

\* The steps of the POSIX branch of install after the validation, in the
\* order of the code.
PosixSteps == << "copytree", "relocate", "rpath", "openssl", "qt_config", "report" >>

\* The steps of the Windows branch of install after the validation.
WinSteps == << "makedirs", "cp", "pywin32", "qt_config", "relocate", "path", "report" >>

StepsOf(plat) == IF plat = "win" THEN WinSteps ELSE PosixSteps

\* The step that follows step s of the branch ("return" after the last).
StepAfter(plat, s) ==
    LET seq == StepsOf(plat)
        i   == CHOOSE j \in DOMAIN seq : seq[j] = s
    IN  IF i = Len(seq) THEN "return" ELSE seq[i + 1]

\* What main's try statement does with an exception that reaches it:
\* main's return value and what it writes.
MainHandler(e, verbose) ==
    IF e \in {"OSError", "Error"}
    THEN [ret |-> "1", out |-> << "log.error" >> \o (IF verbose THEN << "traceback" >> ELSE << >>)]
    ELSE IF e = "KeyboardInterrupt"
    THEN [ret |-> "None", out |-> IF verbose THEN << "log.debug" >> ELSE << >>]
    ELSE IF e = "SystemExit0" THEN [ret |-> "exit0", out |-> << >>]
    ELSE IF e = "SystemExit1" THEN [ret |-> "exit1", out |-> << >>]
    ELSE [ret |-> "uncaught", out |-> << "traceback" >>]

\* The exit status of the process: sys.exit(main(sys.argv)).
ExitStatus(r) == IF r \in {"None", "exit0"} THEN 0 ELSE 1

\* _get_openssl_text on one outcome of the subprocess call and one
\* filesystem: the exception that leaves it, the text it returns and the
\* tied directories _analyze_ranks prints.
_get_openssl_text(fs, outcome) ==
    LET d == _get_default_openssldir(outcome)
        a == _analyze_ranks(_rank_openssl_dir(fs, d.ret))
    IN  IF d.exc # ""
        THEN [exc |-> d.exc, text |-> << >>, printed |-> << >>]
        ELSE [exc |-> "", text |-> OpensslText(a.ret), printed |-> a.printed]

\* The filesystems the query of the tool is checked on.
ToolFilesystems == FilesystemsOver({"/etc/ssl"}, MaxDirs)

\* What an install run meets at line 656: the tool missing, failing,
\* printing nothing, or printing its directory; and no OpenSSL directory,
\* the Debian one alone, or two equally good ones.
RunOutcomes ==
    { [kind |-> "OSError", out |-> << >>], [kind |-> "CalledProcessError", out |-> << >>],
      [kind |-> "output", out |-> << >>],
      [kind |-> "output", out |-> << "OPENSSLDIR: ", DQ, "/etc/ssl", DQ >>] }
RunFilesystems ==
    { MkFs({}, << >>, << >>),
      MkFs({"/etc/ssl"}, [d \in {"/etc/ssl"} |-> "file"], [d \in {"/etc/ssl"} |-> "dir"]),
      MkFs({"/etc/ssl", "/usr/lib/ssl"}, [d \in {"/etc/ssl", "/usr/lib/ssl"} |-> "absent"],
           [d \in {"/etc/ssl", "/usr/lib/ssl"} |-> "dir"]) }

\* ---------------------------------------------------------------- the state

VARIABLES
    platform,          \* "win" or "posix": sys.platform.startswith("win")
    allow_setrunpath,  \* the module global the build sets (RUNPATH is for ELF builds)
    targetKind,        \* what the install directory is on disk: absent, file, dir
    manifest,          \* the relocation manifest the relocation read: [exists, lines]
    pc,                \* where main is
    loc,               \* the options and the arguments of install
    installed,         \* the template files copied to the install directory
    created,           \* the directories created
    handed,            \* the files handed to the path rewriter, in order
    rewritten,         \* the files rewritten in place, in order
    qtconf,            \* the qt.conf files written
    registry,          \* the registry entries written or deleted
    stdout,            \* what the run wrote, in order
    steps,             \* the steps of install that ran, in order
    exc,               \* the exception in flight ("" for none)
    ret,               \* main's return value ("" while it runs)
    failures,          \* the failures that happened
    asked,             \* the questions written to the user so far
    answer,            \* what the last line read at a question was taken as
    openssl_text,      \* what _get_openssl_text returned
    ssl_fs,            \* ranker: the filesystem
    check_output,      \* ranker: the outcome of the subprocess call
    default_openssl,   \* ranker: the system default directory
    openssl_rank,      \* ranker: the dict _rank_openssl_dir returned
    analysis,          \* ranker: what _analyze_ranks returned and printed
    rpc,               \* ranker: the next call
    sys_argv,          \* main on its own: the options of the command line
    ask_default,       \* _askYesNo on its own: the argument "default"
    ask_lines,         \* _askYesNo on its own: the lines read so far
    ask_ret,           \* _askYesNo on its own: the value returned ("" for none)
    apc                \* _askYesNo on its own: the next statement

envvars  == << platform, allow_setrunpath, targetKind, manifest >>
diskvars == << installed, created, handed, rewritten, qtconf, registry >>
runvars  == << pc, loc, stdout, steps, exc, ret, failures, asked, answer >>
rankvars == << ssl_fs, check_output, default_openssl, openssl_rank, analysis, rpc >>
solovars == << sys_argv, ask_default, ask_lines, ask_ret, apc >>
vars     == << envvars, diskvars, runvars, openssl_text, rankvars, solovars >>

Kinds == {"absent", "file", "dir"}

NoManifest == [exists |-> FALSE, lines |-> << >>]

Manifests == {NoManifest}
             \cup {[exists |-> TRUE, lines |-> l] : l \in SeqsUpTo(ManifestLines, MaxManifest)}

NoAnalysis == [ret |-> << >>, printed |-> << >>]

\* The ranker's variables while main runs.
RankIdle ==
    /\ ssl_fs = MkFs({}, << >>, << >>)
    /\ check_output = NoCall
    /\ default_openssl = None
    /\ openssl_rank = EmptyDict
    /\ analysis = NoAnalysis
    /\ rpc = "idle"

\* The variables of main and of _askYesNo on their own, while neither is
\* checked on its own.
ArgvIdle == sys_argv = << >>
AskIdle == ask_default = None /\ ask_lines = << >> /\ ask_ret = "" /\ apc = "idle"

\* The state main starts in.
MainStart ==
    /\ pc = "main"
    /\ loc = [ installDir |-> None, registerCOM |-> TRUE, pathAdditions |-> TRUE,
               useEnv |-> FALSE, verbose |-> FALSE, setRootRunpath |-> FALSE,
               interactive |-> FALSE ]
    /\ installed = {} /\ created = {} /\ handed = << >> /\ rewritten = << >>
    /\ qtconf = {} /\ registry = {}
    /\ stdout = << >> /\ steps = << >> /\ exc = "" /\ ret = "" /\ failures = {}
    /\ asked = {} /\ answer = ""
    /\ openssl_text = << >>

Init ==
    /\ platform \in {"win", "posix"}
    /\ allow_setrunpath \in (IF platform = "win" THEN {FALSE} ELSE BOOLEAN)
    /\ targetKind \in Kinds
    /\ manifest = NoManifest
    /\ MainStart
    /\ RankIdle
    /\ ArgvIdle
    /\ AskIdle

\* ------------------------------------------------------------------- main

\* An exception leaves install or interactiveInstall for main's try.
Raise(e, why) ==
    /\ exc' = e
    /\ failures' = IF why = "" THEN failures ELSE failures \cup {why}
    /\ pc' = "main_except"

\* Lines 755-759: the call main makes in its try statement.
MainCall_interactive(installDir) == "update_check"

MainCall(installDir) == IF installDir = None THEN "update_check" ELSE "install"

\* main, lines 710-759: the options are parsed, then main returns or calls
\* interactiveInstall or install.
MainOn(argv) ==
    LET st == ParseOptions(argv) IN
    /\ loc' = [ installDir |-> st.installDir, registerCOM |-> st.registerCOM,
                pathAdditions |-> st.pathAdditions, useEnv |-> st.useEnv,
                verbose |-> st.verbose, setRootRunpath |-> FALSE,
                interactive |-> (st.installDir = None) ]
    /\ stdout' = stdout \o st.out
    /\ ret' = st.ret
    /\ pc' = IF st.ret # "" THEN "done" ELSE MainCall(st.installDir)

main ==
    /\ pc = "main"
    /\ \E argv \in Argvs : MainOn(argv)
    /\ UNCHANGED << envvars, diskvars, steps, exc, failures, asked, answer, openssl_text, rankvars, solovars >>

\* main, lines 760-771: the except clauses, and the return after them.
main_except ==
    /\ pc = "main_except"
    /\ stdout' = stdout \o MainHandler(exc, loc.verbose).out
    /\ ret' = MainHandler(exc, loc.verbose).ret
    /\ pc' = "done"
    /\ UNCHANGED << envvars, diskvars, loc, steps, exc, failures, asked, answer, openssl_text, rankvars, solovars >>

\* A KeyboardInterrupt where the run waits: at a question, or in the copy,
\* where it leaves a part of the tree copied.
Interruptible ==
    {"ask_dir", "ask_proceed", "ask_com", "ask_path", "ask_env", "ask_rpath",
     "copytree", "cp"}

KeyboardInterrupt ==
    /\ pc \in Interruptible
    /\ IF pc \in {"copytree", "cp"}
       THEN \E part \in SUBSET TemplateFiles : installed' = installed \cup part
       ELSE UNCHANGED installed
    /\ Raise("KeyboardInterrupt", "interrupt")
    /\ UNCHANGED << envvars, created, handed, rewritten, qtconf, registry, loc, stdout,
                    steps, ret, asked, answer, openssl_text, rankvars, solovars >>

\* ------------------------------------------------------ interactiveInstall

\* The question that follows the check of the directory.
FirstQuestion(l) ==
    IF platform = "win"
    THEN IF l.registerCOM THEN "ask_com"
         ELSE IF l.pathAdditions THEN "ask_path" ELSE "install"
    ELSE "ask_env"

\* Lines 380-384: the update check.
update_check ==
    /\ pc = "update_check"
    /\ \/ /\ stdout' = Append(stdout, "Installer superceded")
          /\ Raise("SystemExit0", "")
       \/ /\ pc' = "ask_dir"
          /\ UNCHANGED << stdout, exc, failures >>
    /\ UNCHANGED << envvars, diskvars, loc, steps, ret, asked, answer, openssl_text, rankvars, solovars >>

\* Lines 386-415: the directory is asked for and checked.
ask_dir ==
    /\ pc = "ask_dir"
    /\ asked' = asked \cup {"Install directory: "}
    /\ \E line \in {"", UserDir} :
         /\ loc' = [loc EXCEPT !.installDir = IF line = "" THEN gDefaultInstallDir ELSE line]
         /\ IF targetKind = "dir"
            THEN /\ stdout' = Append(stdout, "already exists")
                 /\ pc' = "ask_proceed"
                 /\ UNCHANGED << exc, failures >>
            ELSE IF targetKind # "absent"
            THEN /\ Raise("Error", "config")
                 /\ UNCHANGED stdout
            ELSE /\ pc' = FirstQuestion(loc)
                 /\ UNCHANGED << stdout, exc, failures >>
    /\ UNCHANGED << envvars, diskvars, steps, ret, answer, openssl_text, rankvars, solovars >>

\* One question of _askYesNo: a prompt is written and a line read, and a
\* rejected line is answered with a hint; after is what the caller prints.
Ask(question, default, line, after) ==
    /\ asked' = asked \cup {question}
    /\ answer' = AskTurn(default, line)
    /\ stdout' = stdout \o after

\* Line 408: the default of "Proceed?".
ProceedDefault == "no"

\* Lines 409-413 without the return: what follows "Proceed?" when "no" goes
\* on like "yes".
AfterProceed_fallthrough(choice, l) ==
    IF choice = "again" THEN "ask_proceed" ELSE FirstQuestion(l)

\* Lines 409-413: what follows "Proceed?": the return on "no", the rest of
\* interactiveInstall on "yes", the question again on a rejected line.
AfterProceed(choice, l) ==
    IF choice = "no" THEN "done"
    ELSE IF choice = "yes" THEN FirstQuestion(l)
    ELSE "ask_proceed"

\* Lines 408-413: "Proceed?".
ask_proceed ==
    /\ pc = "ask_proceed"
    /\ \E line \in Answers :
         LET choice == AskTurn(ProceedDefault, line) IN
         /\ IF choice = "no"
            THEN /\ Ask("Proceed?", ProceedDefault, line, << "Aborting install." >>)
                 /\ ret' = "None"
            ELSE /\ Ask("Proceed?", ProceedDefault, line, << >>)
                 /\ UNCHANGED ret
         /\ pc' = AfterProceed(choice, loc)
    /\ UNCHANGED << envvars, diskvars, loc, steps, exc, failures, openssl_text, rankvars, solovars >>

\* Lines 427-432: the COM question (Windows).
ask_com ==
    /\ pc = "ask_com"
    /\ \E line \in Answers :
         LET a == AskTurn("yes", line) IN
         /\ Ask("register COM?", "yes", line, << >>)
         /\ loc' = IF a = "no" THEN [loc EXCEPT !.registerCOM = FALSE] ELSE loc
         /\ pc' = IF a = "again" THEN pc
                  ELSE IF loc.pathAdditions THEN "ask_path" ELSE "install"
    /\ UNCHANGED << envvars, diskvars, steps, exc, ret, failures, openssl_text, rankvars, solovars >>

\* Lines 433-436: the PATH question (Windows).
ask_path ==
    /\ pc = "ask_path"
    /\ \E line \in Answers :
         LET a == AskTurn("yes", line) IN
         /\ Ask("add to PATH?", "yes", line, << >>)
         /\ loc' = IF a = "no" THEN [loc EXCEPT !.pathAdditions = FALSE] ELSE loc
         /\ pc' = IF a = "again" THEN pc ELSE "install"
    /\ UNCHANGED << envvars, diskvars, steps, exc, ret, failures, openssl_text, rankvars, solovars >>

\* Lines 438-443: the shebang question (POSIX).
ask_env ==
    /\ pc = "ask_env"
    /\ \E line \in Answers :
         LET a == AskTurn("no", line) IN
         /\ Ask("use /usr/bin/env?", "no", line, << >>)
         /\ loc' = IF a = "yes" THEN [loc EXCEPT !.useEnv = TRUE] ELSE loc
         /\ pc' = IF a = "again" THEN pc
                  ELSE IF allow_setrunpath THEN "ask_rpath" ELSE "install"
    /\ UNCHANGED << envvars, diskvars, steps, exc, ret, failures, openssl_text, rankvars, solovars >>

\* Lines 444-447: the RUNPATH question (POSIX, when the build allows it).
ask_rpath ==
    /\ pc = "ask_rpath"
    /\ \E line \in Answers :
         LET a == AskTurn("no", line) IN
         /\ Ask("set RUNPATH?", "no", line, << >>)
         /\ loc' = IF a = "yes" THEN [loc EXCEPT !.setRootRunpath = TRUE] ELSE loc
         /\ pc' = IF a = "again" THEN pc ELSE "install"
    /\ UNCHANGED << envvars, diskvars, steps, exc, ret, failures, openssl_text, rankvars, solovars >>

\* Lines 452-454: after install, the Komodo download; then main returns.
komodo ==
    /\ pc = "komodo"
    /\ pc' = "done"
    /\ ret' = "None"
    /\ UNCHANGED << envvars, diskvars, loc, stdout, steps, exc, failures, asked, answer,
                    openssl_text, rankvars, solovars >>

\* ------------------------------------------------------------------ install

\* A step of install is over: the next step, or the return to the caller.
Advance ==
    LET next == StepAfter(platform, pc) IN
    /\ pc' = IF next # "return" THEN next
             ELSE IF loc.interactive THEN "komodo" ELSE "done"
    /\ ret' = IF next = "return" /\ ~loc.interactive THEN "None" ELSE ret

\* Lines 460-467: the patchelf check and the validation of the target.
install ==
    /\ pc = "install"
    /\ \/ /\ loc.setRootRunpath
          /\ stdout' = Append(stdout, "patchelf is required")
          /\ Raise("SystemExit1", "patchelf")
          /\ UNCHANGED steps
       \/ /\ stdout' = Append(stdout, "Installing ActivePython")
          /\ steps' = Append(steps, "validate")
          /\ IF _validateInstallDir(targetKind) # ""
             THEN Raise(_validateInstallDir(targetKind), "config")
             ELSE /\ pc' = StepsOf(platform)[1]
                  /\ UNCHANGED << exc, failures >>
    /\ UNCHANGED << envvars, diskvars, loc, ret, asked, answer, openssl_text, rankvars, solovars >>

\* Lines 628-639: copytree, and the except clause that prints its error.
copytree ==
    /\ pc = "copytree" /\ platform = "posix"
    /\ steps' = Append(steps, "copytree")
    /\ \/ /\ installed' = installed \cup TemplateFiles
          /\ created' = IF targetKind = "absent" THEN created \cup {"target"} ELSE created
          /\ targetKind' = "dir"
          /\ UNCHANGED << stdout, failures >>
       \/ \E part \in SUBSET TemplateFiles :
            /\ installed' = installed \cup part
            /\ created' = IF targetKind = "absent" /\ part # {}
                          THEN created \cup {"target"} ELSE created
            /\ targetKind' = IF part # {} THEN "dir" ELSE targetKind
            /\ stdout' = Append(stdout, "print(err)")
            /\ failures' = failures \cup {"io_copy"}
    /\ Advance
    /\ UNCHANGED << platform, allow_setrunpath, manifest, handed, rewritten,
                    qtconf, registry, loc, exc, asked, answer, openssl_text, rankvars, solovars >>

\* Lines 470-471 (Windows): the target is created when it does not exist.
makedirs ==
    /\ pc = "makedirs" /\ platform = "win"
    /\ created' = IF targetKind = "absent" THEN created \cup {"target"} ELSE created
    /\ targetKind' = "dir"
    /\ Advance
    /\ UNCHANGED << platform, allow_setrunpath, manifest, installed, handed,
                    rewritten, qtconf, registry, loc, stdout, steps, exc, failures, asked, answer,
                    openssl_text, rankvars, solovars >>

\* Lines 473-478 (Windows): sh2.cp; its error leaves install.
cp ==
    /\ pc = "cp" /\ platform = "win"
    /\ steps' = Append(steps, "copytree")
    /\ \/ /\ installed' = installed \cup TemplateFiles
          /\ Advance
          /\ UNCHANGED << exc, failures >>
       \/ \E part \in SUBSET TemplateFiles :
            /\ installed' = installed \cup part
            /\ Raise("OSError", "io_copy")
            /\ UNCHANGED ret
    /\ UNCHANGED << envvars, created, handed, rewritten, qtconf, registry, loc, stdout,
                    asked, answer, openssl_text, rankvars, solovars >>

\* Lines 482-554 (Windows): the PyWin32 setup, when the build has PyWin32.
pywin32 ==
    /\ pc = "pywin32" /\ platform = "win"
    /\ \E has \in BOOLEAN :
         /\ registry' = IF has
                        THEN registry \cup {"Modules", "Help"}
                             \cup (IF loc.registerCOM THEN {"COM"} ELSE {})
                        ELSE registry
         /\ created' = IF has THEN created \cup {"gen_py"} ELSE created
    /\ Advance
    /\ UNCHANGED << envvars, installed, handed, rewritten, qtconf, loc, stdout, steps,
                    exc, failures, asked, answer, openssl_text, rankvars, solovars >>

\* Lines 567-577 (Windows) and 641-646 (POSIX): the relocation.
relocate ==
    /\ pc = "relocate"
    /\ steps' = Append(steps, "relocate")
    /\ \E m \in Manifests :
         LET out  == IF platform = "win"
                     THEN IF m.exists THEN << "Updating paths for scripts" >> ELSE << >>
                     ELSE << "Relocating dir-dependent files..." >>
             list == IF ~m.exists THEN << >>
                     ELSE IF platform = "win" THEN RelocateLoop(m.lines)
                     ELSE relocate_python(m.lines)
         IN  /\ manifest' = m
             /\ stdout' = stdout \o out
             /\ \/ /\ handed' = handed \o list
                   /\ rewritten' = rewritten \o RelocateAll(installed, list)
                   /\ Advance
                   /\ UNCHANGED << exc, failures >>
                \/ /\ Raise("OSError", "io_reloc")
                   /\ UNCHANGED << handed, rewritten, ret >>
    /\ UNCHANGED << platform, allow_setrunpath, targetKind, installed, created, qtconf,
                    registry, loc, asked, answer, openssl_text, rankvars, solovars >>

\* Lines 648-650 (POSIX): the RPATH rewrite.
rpath ==
    /\ pc = "rpath" /\ platform = "posix"
    /\ IF loc.setRootRunpath
       THEN /\ stdout' = Append(stdout, "Setting RPATH")
            /\ steps' = Append(steps, "rpath")
            /\ rewritten' = Append(rewritten, "RPATH")
       ELSE UNCHANGED << stdout, steps, rewritten >>
    /\ Advance
    /\ UNCHANGED << envvars, installed, created, handed, qtconf, registry, loc, exc,
                    failures, asked, answer, openssl_text, rankvars, solovars >>

\* Line 656 (POSIX): the OpenSSL guidance.
openssl ==
    /\ pc = "openssl" /\ platform = "posix"
    /\ steps' = Append(steps, "openssl")
    /\ \E fs \in RunFilesystems, o \in RunOutcomes :
         LET r == _get_openssl_text(fs, o) IN
         IF r.exc # ""
         THEN /\ Raise(r.exc, "openssl_tool")
              /\ UNCHANGED << stdout, openssl_text, ret >>
         ELSE /\ openssl_text' = r.text
              /\ stdout' = IF r.printed # << >>
                           THEN Append(stdout, "multiple working openssl") ELSE stdout
              /\ Advance
              /\ UNCHANGED << exc, failures >>
    /\ UNCHANGED << envvars, diskvars, loc, asked, answer, rankvars, solovars >>

\* Lines 351-374, called at 557 and 658: qt.conf is written when Qt is there.
qt_config ==
    /\ pc = "qt_config"
    /\ steps' = Append(steps, "qt_config")
    /\ \/ /\ qtconf' = qtconf \cup {"Qt/bin/qt.conf",
                                    IF platform = "win" THEN "qt.conf" ELSE "bin/qt.conf"}
          /\ Advance
          /\ UNCHANGED << exc, failures >>
       \/ /\ Advance
          /\ UNCHANGED << qtconf, exc, failures >>
       \/ /\ Raise("OSError", "io_qt")
          /\ UNCHANGED << qtconf, ret >>
    /\ UNCHANGED << envvars, installed, created, handed, rewritten, registry, loc, stdout,
                    asked, answer, openssl_text, rankvars, solovars >>

\* Lines 586-589 (Windows): the PATH of the user in the registry.
path ==
    /\ pc = "path" /\ platform = "win"
    /\ registry' = IF loc.pathAdditions THEN registry \cup {"Path"} ELSE registry
    /\ Advance
    /\ UNCHANGED << envvars, installed, created, handed, rewritten, qtconf, loc, stdout,
                    steps, exc, failures, asked, answer, openssl_text, rankvars, solovars >>

\* Lines 602-625 and 660-704: the final report.
report ==
    /\ pc = "report"
    /\ steps' = Append(steps, "report")
    /\ stdout' = Append(stdout, "successfully installed")
    /\ Advance
    /\ UNCHANGED << envvars, diskvars, loc, exc, failures, asked, answer, openssl_text, rankvars, solovars >>

Next ==
    \/ main \/ main_except \/ KeyboardInterrupt
    \/ update_check \/ ask_dir \/ ask_proceed \/ ask_com \/ ask_path \/ ask_env
    \/ ask_rpath \/ komodo
    \/ install \/ copytree \/ makedirs \/ cp \/ pywin32 \/ relocate \/ rpath \/ openssl
    \/ qt_config \/ path \/ report

Spec == Init /\ [][Next]_vars

\* ------------------------------------------------- the ranker on its own

\* The system defaults _rank_openssl_dir is applied to: none, the empty
\* string, a directory outside the fixed list, and the first and a middle
\* directory of the fixed list.
DefaultInputs == {None, "", OtherDir, _DEFAULT_OPENSSLDIRS[1], "/etc/ssl"}

\* The variables of main while the ranker is checked on its own.
MainIdle ==
    /\ platform = "posix" /\ allow_setrunpath = FALSE /\ targetKind = "absent"
    /\ manifest = NoManifest
    /\ MainStart

\* Either the ranker is given a system default and a filesystem, or the
\* tool is still to be queried.
RankInit ==
    /\ MainIdle
    /\ ArgvIdle
    /\ AskIdle
    /\ openssl_rank = EmptyDict
    /\ analysis = NoAnalysis
    /\ \/ /\ rpc = "rank"
          /\ check_output = NoCall
          /\ default_openssl \in DefaultInputs
          /\ ssl_fs \in SslFilesystems
       \/ /\ rpc = "query"
          /\ check_output \in CheckOutputOutcomes
          /\ default_openssl = None
          /\ ssl_fs \in ToolFilesystems

\* Line 274: _get_default_openssldir().
QueryTool ==
    /\ rpc = "query"
    /\ LET d == _get_default_openssldir(check_output) IN
       /\ default_openssl' = d.ret
       /\ exc' = d.exc
       /\ rpc' = IF d.exc # "" THEN "raised" ELSE "rank"
    /\ UNCHANGED << envvars, diskvars, pc, loc, stdout, steps, ret, failures, asked, answer,
                    openssl_text, ssl_fs, check_output, openssl_rank, analysis, solovars >>

\* Line 274: _rank_openssl_dir(...).
RankDirs ==
    /\ rpc = "rank"
    /\ openssl_rank' = _rank_openssl_dir(ssl_fs, default_openssl)
    /\ rpc' = "analyze"
    /\ UNCHANGED << envvars, diskvars, runvars, openssl_text, ssl_fs, check_output,
                    default_openssl, analysis, solovars >>

\* Line 273: _analyze_ranks(...), and lines 276-290: the text.
AnalyzeRanks ==
    /\ rpc = "analyze"
    /\ analysis' = _analyze_ranks(openssl_rank)
    /\ openssl_text' = OpensslText(_analyze_ranks(openssl_rank).ret)
    /\ rpc' = "done"
    /\ UNCHANGED << envvars, diskvars, runvars, ssl_fs, check_output, default_openssl,
                    openssl_rank, solovars >>

RankNext == QueryTool \/ RankDirs \/ AnalyzeRanks

SpecRank == RankInit /\ [][RankNext]_vars

\* --------------------------------------------------------- main on its own

\* main is given a command line, and runs up to the call it makes.
MainInit ==
    /\ MainIdle
    /\ RankIdle
    /\ AskIdle
    /\ sys_argv \in Argvs

\* main, lines 710-759, on the command line sys_argv.
main_argv ==
    /\ pc = "main"
    /\ MainOn(sys_argv)
    /\ UNCHANGED << envvars, diskvars, steps, exc, failures, asked, answer, openssl_text,
                    rankvars, solovars >>

MainNext == main_argv

SpecMain == MainInit /\ [][MainNext]_vars

\* ---------------------------------------------------- _askYesNo on its own

\* _askYesNo is called with a default; the user then types lines.
AskInit ==
    /\ MainIdle
    /\ RankIdle
    /\ ArgvIdle
    /\ ask_default \in AskDefaults
    /\ ask_lines = << >>
    /\ ask_ret = ""
    /\ apc = "call"

\* Lines 106-114: the prompt is chosen, or Error raised.
ask_call ==
    /\ apc = "call"
    /\ IF PromptOf(ask_default) = ""
       THEN exc' = "Error" /\ apc' = "raised"
       ELSE exc' = exc /\ apc' = "write"
    /\ UNCHANGED << envvars, diskvars, pc, loc, stdout, steps, ret, failures, asked, answer,
                    openssl_text, rankvars, sys_argv, ask_default, ask_lines, ask_ret >>

\* Line 117: the question and the prompt are written.
ask_write ==
    /\ apc = "write"
    /\ stdout' = Append(stdout, PromptOf(ask_default))
    /\ apc' = "read"
    /\ UNCHANGED << envvars, diskvars, pc, loc, steps, exc, ret, failures, asked, answer,
                    openssl_text, rankvars, sys_argv, ask_default, ask_lines, ask_ret >>

\* Lines 118-125: a line is read, and taken as an answer or rejected with
\* the hint.
ask_read ==
    /\ apc = "read"
    /\ Len(ask_lines) < MaxReads
    /\ \E line \in AskInputs :
         LET a == AskTurn(ask_default, line) IN
         /\ ask_lines' = Append(ask_lines, line)
         /\ IF a = "again"
            THEN /\ stdout' = Append(stdout, "Please repond")
                 /\ apc' = "write"
                 /\ UNCHANGED ask_ret
            ELSE /\ ask_ret' = a
                 /\ apc' = "returned"
                 /\ UNCHANGED stdout
    /\ UNCHANGED << envvars, diskvars, pc, loc, steps, exc, ret, failures, asked, answer,
                    openssl_text, rankvars, sys_argv, ask_default >>

AskNext == ask_call \/ ask_write \/ ask_read

SpecAsk == AskInit /\ [][AskNext]_vars

\* ------------------------------------------------------ the ranker's claims

\* The candidates of a run of the ranker: the system default when there is
\* one, and the fixed list.
Candidates ==
    (IF default_openssl \notin {None, ""} THEN {default_openssl} ELSE {})
    \cup {"/usr/share/ssl", "/etc/pki/tls", "/usr/lib/ssl", "/etc/ssl", "/usr/local/ssl",
          "/System/Library/OpenSSL"}

Ranked == rpc \in {"analyze", "done"}
RankKeys == SeqToSet(openssl_rank.keys)

\* C1: the keys of the map _rank_openssl_dir returns are exactly the
\* candidates that are directories, and the score of each is 1 for the system
\* default, plus 4 when cert.pem is a file in it, plus 2 when certs is a
\* directory in it: an integer in 0..7.
C1_RankScores ==
    Ranked =>
       /\ RankKeys = {d \in Candidates : d \in ssl_fs.dirs}
       /\ Len(openssl_rank.keys) = Cardinality(RankKeys)
       /\ \A k \in RankKeys :
            /\ openssl_rank.val[k] =
                 (IF k = default_openssl THEN 1 ELSE 0)
                 + (IF (k \o "/cert.pem") \in ssl_fs.files THEN 4 ELSE 0)
                 + (IF (k \o "/certs") \in ssl_fs.dirs THEN 2 ELSE 0)
            /\ openssl_rank.val[k] \in 0..7

\* C1's case: the system default is one of the fixed paths and scores 7.
C1_Witness ==
    /\ Ranked /\ default_openssl = "/etc/ssl" /\ check_output = NoCall
    /\ "/etc/ssl" \in RankKeys /\ openssl_rank.val["/etc/ssl"] = 7
    /\ Cardinality(RankKeys) = 2

\* m is the greatest score of the map.
IsMax(m) ==
    /\ \E k \in RankKeys : openssl_rank.val[k] = m
    /\ \A k \in RankKeys : openssl_rank.val[k] <= m

\* C2: with m the greatest score of a non-empty map, _analyze_ranks
\* recommends (cert-file, cert-dir) = (1,1) when m >= 6, (1,0) when
\* 4 <= m < 6, (0,1) when 2 <= m < 4 and (0,0) when m < 2.
C2_Thresholds ==
    (rpc = "done" /\ RankKeys # {}) =>
       \A m \in 0..7 : IsMax(m) =>
          /\ m >= 6 => SubSeq(analysis.ret, 2, 3) = << 1, 1 >>
          /\ (4 <= m /\ m < 6) => SubSeq(analysis.ret, 2, 3) = << 1, 0 >>
          /\ (2 <= m /\ m < 4) => SubSeq(analysis.ret, 2, 3) = << 0, 1 >>
          /\ m < 2 => SubSeq(analysis.ret, 2, 3) = << 0, 0 >>

\* C2's case: the best directory has a certs directory alone (score 2).
C2_Witness ==
    /\ rpc = "done" /\ IsMax(2) /\ analysis.ret[2] = 0 /\ analysis.ret[3] = 1

\* The candidate list in its order: the system default, then the fixed list.
CandidateOrder ==
    (IF default_openssl \notin {None, ""} THEN << default_openssl >> ELSE << >>)
    \o << "/usr/share/ssl", "/etc/pki/tls", "/usr/lib/ssl", "/etc/ssl", "/usr/local/ssl",
          "/System/Library/OpenSSL" >>

\* The directories with the greatest score.
Tied == {k \in RankKeys : \A j \in RankKeys : openssl_rank.val[j] <= openssl_rank.val[k]}

\* C3: the directory _analyze_ranks returns has the greatest score; when
\* several have it, all of them are printed and the one returned is the first
\* of them in the order of the candidate list.
C3_FirstOfTied ==
    (rpc = "done" /\ RankKeys # {}) =>
       /\ analysis.ret[1] \in Tied
       /\ Cardinality(Tied) > 1 => SeqToSet(analysis.printed) = Tied
       /\ \E i \in DOMAIN CandidateOrder :
            /\ CandidateOrder[i] = analysis.ret[1]
            /\ \A j \in 1..(i - 1) : CandidateOrder[j] \notin Tied

\* C3's case: two directories tie and both are printed.
C3_Witness ==
    /\ rpc = "done" /\ Cardinality(Tied) = 2 /\ Len(analysis.printed) = 2
    /\ analysis.ret[1] = analysis.printed[1]
    /\ default_openssl \notin {None, ""}

\* C8: when no candidate directory exists, _analyze_ranks returns
\* (None, 0, 0) and the text is the not-found message with two empty strings.
C8_NotFound ==
    (rpc = "done" /\ Candidates \cap ssl_fs.dirs = {}) =>
       /\ analysis.ret = << None, 0, 0 >>
       /\ openssl_text = << "Openssl directory not found in an expected location.", "", "" >>

\* C8's case: a system default is given and no candidate exists.
C8_Witness ==
    /\ rpc = "done" /\ default_openssl = "/fakessl" /\ ssl_fs.dirs = {}
    /\ analysis.ret[1] = None

\* C9: _get_default_openssldir never raises, whatever the subprocess call
\* does or prints.
C9_NeverRaises == rpc # "raised" /\ (rpc # "idle" => exc = "")

\* ---------------------------------------------------- the install's claims

\* The relocation of this run is over and raised nothing.
Relocated == "relocate" \in SeqToSet(steps) /\ "io_reloc" \notin failures

\* How many lines of the manifest name the file f.
Named(f) == Cardinality({i \in DOMAIN manifest.lines : manifest.lines[i][1] = f})

C5_NoMutation ==
    /\ [](targetKind = "file" =>
            /\ installed = {} /\ created = {} /\ handed = << >> /\ rewritten = << >>
            /\ qtconf = {} /\ registry = {}
            /\ ("validate" \in SeqToSet(steps) \/ "Install directory: " \in asked)
                  => /\ exc = "Error"
                     /\ pc \in {"main_except", "done"}
                     /\ pc = "done" => (ret = "1" /\ "log.error" \in SeqToSet(stdout)))
    /\ [][targetKind = "file" => (targetKind' = "file" /\ UNCHANGED diskvars)]_vars

\* C5's case: install was called on a target that is a file, and main is over.
C5_Witness ==
    /\ targetKind = "file" /\ pc = "done" /\ ret = "1" /\ ~loc.interactive
    /\ steps = << "validate" >> /\ exc = "Error"

\* C6: after a copy that failed with an I/O error no later step of install
\* runs, no success is reported and main returns 1.
C6_CopyFailureAborts ==
    "io_copy" \in failures =>
       /\ SeqToSet(steps) \cap {"relocate", "rpath", "openssl", "qt_config", "report"} = {}
       /\ "successfully installed" \notin SeqToSet(stdout)
       /\ pc = "done" => ret = "1"

\* The steps of a run that C7 names.
NamedSteps == SelectSeq(steps, LAMBDA x : x \in {"validate", "copytree", "relocate", "openssl", "report"})

\* C7: a POSIX run of install that prints the final report has validated the
\* target, copied the tree, relocated the paths, computed the OpenSSL guidance
\* and printed the report, in this order and each once.
C7_PosixOrder ==
    (platform = "posix" /\ "report" \in SeqToSet(steps)) =>
       NamedSteps = << "validate", "copytree", "relocate", "openssl", "report" >>

\* C7's case: a POSIX run printed the report and main is over.
C7_Witness ==
    /\ platform = "posix" /\ pc = "done" /\ "report" \in SeqToSet(steps)
    /\ "successfully installed" \in SeqToSet(stdout)

\* The reports of a failure a run wrote.
FailureReports == SelectSeq(stdout, LAMBDA x : x \in {"log.error", "print(err)"})

\* C10: a run of main in which a configuration error, an I/O error of the
\* copy or the relocation, or a user interrupt happened reports the failure
\* once and returns a non-zero exit status.
C10_FailureExitsNonZero ==
    (pc = "done" /\ failures \cap {"config", "io_copy", "io_reloc", "interrupt"} # {}) =>
       /\ ExitStatus(ret) # 0
       /\ Len(FailureReports) = 1

\* ------------------------------------------------------------ main's claims

\* The command line has an option among opts.
Given(opts) == \E i \in DOMAIN sys_argv : sys_argv[i].opt \in opts

\* C11: a command line made of the option forms the usage text lists is
\* accepted by main's parser, and each option has its documented effect: with
\* -c or --no-com-registration the installer runs with registerCOM false,
\* with -p or --no-path-additions with pathAdditions false, with -e or
\* --use-env-shebang with useEnv true, with -I or --install-dir with that
\* directory, and with -h or --help main prints the usage and returns.
C11_UsageOptionsWork ==
    (pc # "main" /\ \A i \in DOMAIN sys_argv : sys_argv[i].opt \in UsageOptions) =>
       /\ ret # "1"
       /\ Given({"-h", "--help"}) => (ret = "None" /\ stdout = << "usage" >>)
       /\ (ret = "" /\ Given({"-c", "--no-com-registration"})) => ~loc.registerCOM
       /\ (ret = "" /\ Given({"-p", "--no-path-additions"})) => ~loc.pathAdditions
       /\ (ret = "" /\ Given({"-e", "--use-env-shebang"})) => loc.useEnv
       /\ (ret = "" /\ Given({"-v", "--verbose"})) => loc.verbose
       /\ (ret = "" /\ Given({"-I", "--install-dir"})) => (loc.installDir = UserDir /\ pc = "install")

\* C12: when main is given an install directory on the command line, no
\* question is written and no line is read in the whole run, whatever the
\* target is: absent, a directory that exists, or a file.
C12_NonInteractive ==
    (pc # "main" /\ ~loc.interactive) => (asked = {} /\ answer = "")

\* C12's case: a directory was given, the target existed as a directory, and
\* the install ran to its report without a question.
C12_Witness ==
    /\ ~loc.interactive /\ loc.installDir = UserDir
    /\ pc = "done" /\ ret = "None"
    /\ "target" \notin created /\ installed # {}
    /\ NamedSteps # << >> /\ NamedSteps[Len(NamedSteps)] = "report"
    /\ asked = {}

\* ------------------------------------------------------- _askYesNo's claims

\* A line _askYesNo does not take as an answer, as the claim words it: an
\* empty line when there is no default, or a line that is not y, ye, yes, n
\* or no in any case.
Rejected(default, line) ==
    \/ line = "" /\ default = None
    \/ line # "" /\ Lower(line) \notin {"y", "ye", "yes", "n", "no"}

\* The writes of _askYesNo that are w.
Writes(w) == SelectSeq(stdout, LAMBDA x : x = w)

\* C13: _askYesNo returns only "yes" or "no"; a default other than "yes",
\* "no" or None raises Error before anything is written or read; every line
\* before the one that is answered is a rejected one, each rejected line is
\* answered with the hint and the question written again before the next
\* read; the line that ends the call is either empty, with the default "yes"
\* or "no" returned, or one of y, ye, yes (returning "yes") or n, no
\* (returning "no") in any case.
C13_AskYesNo ==
    /\ ask_ret \in {"", "yes", "no"}
    /\ (apc = "returned") <=> (ask_ret # "")
    /\ ask_default \notin {None, "yes", "no"} =>
          /\ apc \in {"call", "raised"}
          /\ ask_lines = << >> /\ stdout = << >>
          /\ apc = "raised" => exc = "Error"
    /\ ask_default \in {None, "yes", "no"} => (exc = "" /\ apc # "raised")
    /\ \A i \in DOMAIN ask_lines :
          (i < Len(ask_lines) \/ apc # "returned") => Rejected(ask_default, ask_lines[i])
    /\ Len(Writes("Please repond")) = Len(ask_lines) - (IF apc = "returned" THEN 1 ELSE 0)
    /\ Len(Writes(PromptOf(ask_default))) =
          IF apc \in {"call", "raised"} THEN 0
          ELSE Len(ask_lines) + (IF apc = "read" THEN 1 ELSE 0)
    /\ apc = "returned" =>
          LET line == ask_lines[Len(ask_lines)] IN
          IF line = ""
          THEN ask_default \in {"yes", "no"} /\ ask_ret = ask_default
          ELSE \/ Lower(line) \in {"y", "ye", "yes"} /\ ask_ret = "yes"
               \/ Lower(line) \in {"n", "no"} /\ ask_ret = "no"

\* C13's case: with no default, an empty line and a word are rejected and
\* "Ye" is then taken as "yes".
C13_Witness ==
    /\ apc = "returned" /\ ask_default = None
    /\ ask_lines = << "", "maybe", "Ye" >>
    /\ ask_ret = "yes"
    /\ stdout = << " [y/n] ", "Please repond", " [y/n] ", "Please repond", " [y/n] " >>

\* ---------------------------------------------- interactiveInstall's claims

\* The user was asked "Proceed?" last, and the line read was taken as "no".
Declined == asked = {"Install directory: ", "Proceed?"} /\ answer = "no"

\* C14: when the directory chosen in interactiveInstall exists as a directory
\* and the answer to "Proceed?" is "no", which an empty line is taken as,
\* interactiveInstall has printed "Aborting install." and returned: main is
\* done and returned None, no step of install ran, and nothing was copied,
\* created, rewritten or registered.
C14_DeclineReturns ==
    Declined =>
       /\ targetKind = "dir"
       /\ AskTurn(ProceedDefault, "") = "no"
       /\ pc = "done" /\ ret = "None" /\ exc = ""
       /\ stdout = << "already exists", "Aborting install." >>
       /\ steps = << >>
       /\ installed = {} /\ created = {} /\ handed = << >> /\ rewritten = << >>
       /\ qtconf = {} /\ registry = {}

\* C14's case: on Windows, with both questions still to ask, the user
\* declined.
C14_Witness ==
    /\ Declined /\ platform = "win" /\ targetKind = "dir"
    /\ loc.registerCOM /\ loc.pathAdditions
    /\ pc = "done"

====
